---- MODULE Spec2Model ----
(***************************************************************************)
(* Model of edb/lang/schema/utils.py: hierarchy algebra over class MROs,   *)
(* attribute merge reducers, name suggestions and type-reference           *)
(* resolution.  Every function of the module is pure: a behaviour draws    *)
(* the inputs of one call in the initial state and one action applies the  *)
(* function, recording what it returned or raised.                         *)
(***************************************************************************)
EXTENDS Integers, Sequences, FiniteSets, TLC

VARIABLES call, args, ret

vars == <<call, args, ret>>

(***************************************************************************)
(* Python values.  None and optional values are wrapped so that they can   *)
(* be compared with any other value; a call either returns or raises.      *)
(***************************************************************************)
None == [some |-> FALSE]

Some(v) == [some |-> TRUE, v |-> v]

Return(v) == [ok |-> TRUE, val |-> v]

Raise(kind, context) == [ok |-> FALSE, exc |-> kind, context |-> context]

NotCalled == [ok |-> FALSE, exc |-> "not called", context |-> None]

SeqToSet(s) == {s[i] : i \in 1..Len(s)}

\* list.index(x): the smallest position holding x
Index(s, x) == CHOOSE i \in 1..Len(s) : s[i] = x /\ \A j \in 1..(i - 1) : s[j] # x

\* the sequences over S of length at most n
SeqsUpTo(S, n) == UNION {[1..k -> S] : k \in 0..n}

\* [x for i, x in enumerate(s) if keep[i]]
RECURSIVE FilterByIndex(_, _, _)
FilterByIndex(s, keep, i) ==
    IF i > Len(s) THEN <<>>
    ELSE (IF keep[i] THEN <<s[i]>> ELSE <<>>) \o FilterByIndex(s, keep, i + 1)

(***************************************************************************)
(* Class hierarchies.  Classes are numbered; the bases of a class have     *)
(* smaller numbers, so the graph is acyclic.  get_mro() of a class is the  *)
(* class itself followed by its strict ancestors, in a linearization that  *)
(* extends the linearization of each of its bases.                         *)
(***************************************************************************)
NClasses == 3

MaxList == 3

Classes == 1..NClasses

RECURSIVE Ancestors(_, _)
Ancestors(bases, c) == bases[c] \cup UNION {Ancestors(bases, b) : b \in bases[c]}

BasesSets == {b \in [Classes -> SUBSET Classes] : \A c \in Classes : b[c] \subseteq 1..(c - 1)}

Permutations1(S) == {s \in [1..Cardinality(S) -> S] : \A i, j \in 1..Cardinality(S) : i # j => s[i] # s[j]}

\* a is a subsequence of b (both without repetition)
IsSubLinearization(a, b) ==
    /\ SeqToSet(a) \subseteq SeqToSet(b)
    /\ \A i, j \in 1..Len(a) : i < j => Index(b, a[i]) < Index(b, a[j])

Linearizations(bases, c) == {<<c>> \o p : p \in Permutations1(Ancestors(bases, c))}

MroTables(bases) ==
    {m \in [Classes -> UNION {Linearizations(bases, c) : c \in Classes}] :
        \A c \in Classes :
            /\ m[c] \in Linearizations(bases, c)
            /\ \A b \in bases[c] : IsSubLinearization(m[b], m[c])}

Hierarchies == UNION {MroTables(b) : b \in BasesSets}

\* Class.get_mro()
get_mro(mro, c) == mro[c]

\* x is a strict ancestor of y: x is in y's MRO and is not y
StrictAncestor(mro, x, y) == x # y /\ x \in SeqToSet(get_mro(mro, y))

\* sorted(S, key): S listed by ascending key (key is injective on S)
RECURSIVE SortedByKey(_, _)
SortedByKey(S, key) ==
    IF S = {} THEN <<>>
    ELSE LET m == CHOOSE x \in S : \A y \in S : key[x] <= key[y]
         IN  <<m>> \o SortedByKey(S \ {m}, key)

RECURSIVE IntersectAll(_, _)
IntersectAll(S, sets) ==
    IF sets = <<>> THEN S ELSE IntersectAll(S \cap Head(sets), Tail(sets))

\* the common ancestors are ranked from the far end of the first MRO
nearest_common_ancestor_farthest(mro, classes) ==
    IF Len(classes) = 0 THEN Raise("IndexError", None)
    ELSE LET first == get_mro(mro, classes[1])
             rest == [i \in 1..(Len(classes) - 1) |-> SeqToSet(get_mro(mro, classes[i + 1]))]
             common == SortedByKey(IntersectAll(SeqToSet(first), rest),
                                   [x \in SeqToSet(first) |-> 0 - Index(first, x)])
         IN  IF common # <<>> THEN Return(Some(common[1])) ELSE Return(None)

get_class_nearest_common_ancestor(mro, classes) ==
    IF Len(classes) = 0 THEN Raise("IndexError", None)
    ELSE LET first == get_mro(mro, classes[1])
             rest == [i \in 1..(Len(classes) - 1) |-> SeqToSet(get_mro(mro, classes[i + 1]))]
             common == SortedByKey(IntersectAll(SeqToSet(first), rest),
                                   [x \in SeqToSet(first) |-> Index(first, x)])
         IN  IF common # <<>> THEN Return(Some(common[1])) ELSE Return(None)

\* the membership test with its operands exchanged
most_generic_swapped(mro, classes) ==
    LET mros == [i \in 1..Len(classes) |-> SeqToSet(get_mro(mro, classes[i]))]
        count == Len(classes)
        keep == [i \in 1..count |->
                    ~ \E j \in 1..count : j # i /\ classes[i] \in mros[j]]
    IN  Return(FilterByIndex(classes, keep, 1))

\* all() in place of any()
most_generic_all(mro, classes) ==
    LET mros == [i \in 1..Len(classes) |-> SeqToSet(get_mro(mro, classes[i]))]
        count == Len(classes)
        keep == [i \in 1..count |->
                    ~ \A j \in (1..count) \ {i} : classes[j] \in mros[i]]
    IN  Return(FilterByIndex(classes, keep, 1))

minimize_class_set_by_most_generic(mro, classes) ==
    LET mros == [i \in 1..Len(classes) |-> SeqToSet(get_mro(mro, classes[i]))]
        count == Len(classes)
        keep == [i \in 1..count |->
                    ~ \E j \in 1..count : j # i /\ classes[j] \in mros[i]]
    IN  Return(FilterByIndex(classes, keep, 1))

\* the membership test with its operands exchanged
least_generic_swapped(mro, classes) ==
    LET mros == [i \in 1..Len(classes) |-> SeqToSet(get_mro(mro, classes[i]))]
        count == Len(classes)
        keep == [i \in 1..count |->
                    ~ \E j \in 1..count : j # i /\ classes[j] \in mros[i]]
    IN  Return(FilterByIndex(classes, keep, 1))

minimize_class_set_by_least_generic(mro, classes) ==
    LET mros == [i \in 1..Len(classes) |-> SeqToSet(get_mro(mro, classes[i]))]
        count == Len(classes)
        keep == [i \in 1..count |->
                    ~ \E j \in 1..count : j # i /\ classes[i] \in mros[j]]
    IN  Return(FilterByIndex(classes, keep, 1))

\* p.issubclass(scls)
issubclass(mro, p, scls) == scls \in SeqToSet(get_mro(mro, p))

\* d.descendants(schema): the classes of the schema that are strict
\* subclasses of d
descendants(mro, d) == {x \in Classes : x # d /\ issubclass(mro, x, d)}

\* the dict of get_inheritance_map, as a function on its keys
get_inheritance_map(mro, classes) ==
    [scls \in SeqToSet(classes) |->
        SelectSeq(classes, LAMBDA p : p # scls /\ issubclass(mro, p, scls))]

\* the input subclasses themselves are left out of the value
full_inheritance_map_descendants_only(mro, classes) ==
    LET im == get_inheritance_map(mro, classes)
    IN  Return([p \in DOMAIN im |->
                   UNION {descendants(mro, d) : d \in SeqToSet(im[p])}])

get_full_inheritance_map(mro, classes) ==
    LET im == get_inheritance_map(mro, classes)
    IN  Return([p \in DOMAIN im |->
                   UNION {descendants(mro, d) : d \in SeqToSet(im[p])}
                       \cup SeqToSet(im[p])])

HierInputs == {[mro |-> m, classes |-> cs] : m \in Hierarchies, cs \in SeqsUpTo(Classes, MaxList)}

InitHier == call = "none" /\ args \in HierInputs /\ ret = NotCalled

NearestCommonAncestor ==
    /\ call = "none"
    /\ call' = "get_class_nearest_common_ancestor"
    /\ ret' = get_class_nearest_common_ancestor(args.mro, args.classes)
    /\ UNCHANGED args

MinimizeMostGeneric ==
    /\ call = "none"
    /\ call' = "minimize_class_set_by_most_generic"
    /\ ret' = minimize_class_set_by_most_generic(args.mro, args.classes)
    /\ UNCHANGED args

MinimizeLeastGeneric ==
    /\ call = "none"
    /\ call' = "minimize_class_set_by_least_generic"
    /\ ret' = minimize_class_set_by_least_generic(args.mro, args.classes)
    /\ UNCHANGED args

GetFullInheritanceMap ==
    /\ call = "none"
    /\ call' = "get_full_inheritance_map"
    /\ ret' = get_full_inheritance_map(args.mro, args.classes)
    /\ UNCHANGED args

NextHier ==
    NearestCommonAncestor \/ MinimizeMostGeneric \/ MinimizeLeastGeneric \/ GetFullInheritanceMap

SpecHier == InitHier /\ [][NextHier]_vars

(***************************************************************************)
(* Properties of the hierarchy algebra.                                    *)
(***************************************************************************)
Distinct(s) == \A i, j \in 1..Len(s) : i # j => s[i] # s[j]

\* the members of the list s that are in the set S, in the order of s
Restrict(s, S) == SelectSeq(s, LAMBDA x : x \in S)

NotAncestorOfAnother(mro, classes) ==
    {c \in SeqToSet(classes) : ~ \E d \in SeqToSet(classes) : StrictAncestor(mro, c, d)}

NotDescendantOfAnother(mro, classes) ==
    {c \in SeqToSet(classes) : ~ \E d \in SeqToSet(classes) : StrictAncestor(mro, d, c)}

Antichain(mro, s) == \A i, j \in 1..Len(s) : ~ StrictAncestor(mro, s[i], s[j])

\* C3 as stated: minimize_most_generic of distinct classes returns, in input
\* order, exactly the classes that are not a strict ancestor of another
\* input class.
C3_AsStated ==
    (call = "minimize_class_set_by_most_generic" /\ Distinct(args.classes))
        => ret = Return(Restrict(args.classes, NotAncestorOfAnother(args.mro, args.classes)))

\* C3 amended: minimize_most_generic of distinct classes returns, in input
\* order, exactly the classes that are not a strict descendant of another
\* input class (the subclasses are dropped, the most generic classes kept).
C3_MostGenericKeepsNonDescendants ==
    (call = "minimize_class_set_by_most_generic" /\ Distinct(args.classes))
        => ret = Return(Restrict(args.classes, NotDescendantOfAnother(args.mro, args.classes)))

C3_Witness ==
    /\ call = "minimize_class_set_by_most_generic"
    /\ Distinct(args.classes)
    /\ ret.ok
    /\ \E c, d \in SeqToSet(args.classes) :
          /\ StrictAncestor(args.mro, d, c)
          /\ c \notin SeqToSet(ret.val)
          /\ d \in SeqToSet(ret.val)

\* C4 as stated: minimize_least_generic of distinct classes returns, in input
\* order, exactly the classes that are not a strict descendant of another
\* input class.
C4_AsStated ==
    (call = "minimize_class_set_by_least_generic" /\ Distinct(args.classes))
        => ret = Return(Restrict(args.classes, NotDescendantOfAnother(args.mro, args.classes)))

\* C4 amended: minimize_least_generic of distinct classes returns, in input
\* order, exactly the classes that are not a strict ancestor of another
\* input class (the superclasses are dropped, the most specific kept).
C4_LeastGenericKeepsNonAncestors ==
    (call = "minimize_class_set_by_least_generic" /\ Distinct(args.classes))
        => ret = Return(Restrict(args.classes, NotAncestorOfAnother(args.mro, args.classes)))

C4_Witness ==
    /\ call = "minimize_class_set_by_least_generic"
    /\ Distinct(args.classes)
    /\ ret.ok
    /\ \E c, d \in SeqToSet(args.classes) :
          /\ StrictAncestor(args.mro, d, c)
          /\ d \notin SeqToSet(ret.val)
          /\ c \in SeqToSet(ret.val)

\* C5: the result of minimize_most_generic and the result of
\* minimize_least_generic are antichains: no member of a result is a strict
\* ancestor (or strict descendant) of another member of that result.
C5_ResultsAreAntichains ==
    (call \in {"minimize_class_set_by_most_generic", "minimize_class_set_by_least_generic"})
        => (ret.ok /\ Antichain(args.mro, ret.val))

C5_Witness ==
    /\ call = "minimize_class_set_by_most_generic"
    /\ Distinct(args.classes)
    /\ ret.ok
    /\ Len(ret.val) >= 2
    /\ Len(ret.val) < Len(args.classes)

\* C6: for a non-empty list, nearest_common_ancestor returns the class that
\* is in the MRO of every input class and has the smallest index in the
\* first class's MRO, or none when the MROs share no class.
C6_NearestCommonAncestor ==
    (call = "get_class_nearest_common_ancestor" /\ args.classes # <<>>)
        => LET first == args.mro[args.classes[1]]
               shared == {c \in Classes :
                            \A i \in 1..Len(args.classes) : c \in SeqToSet(args.mro[args.classes[i]])}
           IN  /\ ret.ok
               /\ shared = {} => ret.val = None
               /\ shared # {} =>
                     /\ ret.val.some
                     /\ ret.val.v \in shared
                     /\ \A d \in shared : Index(first, ret.val.v) <= Index(first, d)
               /\ (\A i \in 1..Len(args.classes) : args.classes[i] = args.classes[1])
                     => ret.val = Some(args.classes[1])

\* two different classes whose MROs share more than one class: the result
\* is the shared class nearest to the first one
C6_Witness ==
    /\ call = "get_class_nearest_common_ancestor"
    /\ Len(args.classes) = 2
    /\ args.classes[1] # args.classes[2]
    /\ ret.ok /\ ret.val.some
    /\ \E d \in Classes :
          /\ d # ret.val.v
          /\ \A i \in 1..2 : d \in SeqToSet(args.mro[args.classes[i]])

\* C7 as stated: nearest_common_ancestor of an empty collection returns none
\* and does not fail.
C7_EmptyReturnsNone ==
    (call = "get_class_nearest_common_ancestor" /\ args.classes = <<>>)
        => ret = Return(None)

(***************************************************************************)
(* Legality of a function argument.  A type has a kind and a name; an      *)
(* Array has one element type.                                             *)
(***************************************************************************)
ScalarType(name) == [kind |-> "Object", name |-> name, element_types |-> <<>>]

ArrayType(element) == [kind |-> "Array", name |-> "array", element_types |-> <<element>>]

TupleType(element) == [kind |-> "Tuple", name |-> "tuple", element_types |-> <<element>>]

AnyType == ScalarType("std::any")

LegalityTypes ==
    LET scalars == {AnyType, ScalarType("std::int64"), ScalarType("std::str")}
    IN  scalars \cup {ArrayType(s) : s \in scalars} \cup {TupleType(s) : s \in scalars}

\* the argument type is not looked at
is_legal_ignoring_arg(argt, paramt, returnt) ==
    ~ (/\ paramt.name = "std::any"
       /\ returnt.kind = "Array"
       /\ returnt.element_types[1].name = "std::any")

is_legal_function_arg(argt, paramt, returnt) ==
    ~ (/\ paramt.name = "std::any"
       /\ returnt.kind = "Array"
       /\ returnt.element_types[1].name = "std::any"
       /\ argt.kind = "Array")

LegalInputs ==
    {[argt |-> a, paramt |-> p, returnt |-> r] :
        a \in LegalityTypes, p \in LegalityTypes, r \in LegalityTypes}

InitLegal == call = "none" /\ args \in LegalInputs /\ ret = NotCalled

IsLegalFunctionArg ==
    /\ call = "none"
    /\ call' = "is_legal_function_arg"
    /\ ret' = Return(is_legal_function_arg(args.argt, args.paramt, args.returnt))
    /\ UNCHANGED args

NextLegal == IsLegalFunctionArg

SpecLegal == InitLegal /\ [][NextLegal]_vars

\* C14: is_legal_function_arg returns false exactly when the parameter type
\* is the universal type, the return type is an Array of the universal type
\* and the argument type is an Array; it returns true otherwise.
C14_IllegalExactlyForAnyArrays ==
    call = "is_legal_function_arg" =>
        /\ ret.ok
        /\ ret.val = FALSE <=>
              /\ args.paramt = AnyType
              /\ args.returnt = ArrayType(AnyType)
              /\ args.argt \in {ArrayType(e) : e \in LegalityTypes}

\* arg = Array<int64>, param = any, return = Array<any>: false
C14_Witness ==
    /\ call = "is_legal_function_arg"
    /\ args.argt = ArrayType(ScalarType("std::int64"))
    /\ args.paramt = AnyType
    /\ args.returnt = ArrayType(AnyType)
    /\ ret = Return(FALSE)

\* S(c): the input classes other than c that are subclasses of c
InputSubclasses(c) ==
    {p \in SeqToSet(args.classes) : StrictAncestor(args.mro, c, p)}

\* C19: the value of get_full_inheritance_map at an input class c is S(c)
\* (the value of get_inheritance_map at c) united with the descendants of
\* every member of S(c); it does not contain c and it contains S(c).
C19_FullInheritanceMap ==
    call = "get_full_inheritance_map" =>
        /\ ret.ok
        /\ DOMAIN ret.val = SeqToSet(args.classes)
        /\ \A c \in SeqToSet(args.classes) :
              /\ SeqToSet(get_inheritance_map(args.mro, args.classes)[c]) = InputSubclasses(c)
              /\ ret.val[c] = InputSubclasses(c) \cup
                    {x \in Classes : \E d \in InputSubclasses(c) : StrictAncestor(args.mro, d, x)}
              /\ c \notin ret.val[c]
              /\ InputSubclasses(c) \subseteq ret.val[c]

\* the value at c holds an input subclass of c and a descendant of it that
\* is not in the input list
C19_Witness ==
    /\ call = "get_full_inheritance_map"
    /\ \E c \in SeqToSet(args.classes) :
          /\ InputSubclasses(c) # {}
          /\ \E x \in ret.val[c] : x \notin SeqToSet(args.classes)

\* the class is in the result or is an ancestor or a descendant of a member
\* of the result
Covered(mro, c, result) ==
    \/ c \in SeqToSet(result)
    \/ \E r \in SeqToSet(result) : StrictAncestor(mro, r, c) \/ StrictAncestor(mro, c, r)

\* C20 as stated: for any input list, lists with a repeated class included,
\* every input class is covered by the result of either minimization, and
\* the result of a non-empty input is not empty.
C20_EveryInputClassIsCovered ==
    call \in {"minimize_class_set_by_most_generic", "minimize_class_set_by_least_generic"} =>
        /\ ret.ok
        /\ \A i \in 1..Len(args.classes) : Covered(args.mro, args.classes[i], ret.val)
        /\ args.classes # <<>> => ret.val # <<>>

\* the coverage of the lists of distinct classes
CoverageOfDistinctLists ==
    (call \in {"minimize_class_set_by_most_generic", "minimize_class_set_by_least_generic"}
        /\ Distinct(args.classes)) =>
        /\ ret.ok
        /\ \A i \in 1..Len(args.classes) : Covered(args.mro, args.classes[i], ret.val)
        /\ args.classes # <<>> => ret.val # <<>>

(***************************************************************************)
(* Attribute merge.  An object carries one optional boolean field; the     *)
(* reducers fold the values that are present with max or min, comparing    *)
(* booleans as Python does (False < True).                                 *)
(***************************************************************************)
MaxSources == 3

FieldValues == {None, Some(TRUE), Some(FALSE)}

Objects == {[final |-> v] : v \in FieldValues}

getattr(obj, field_name) == obj[field_name]

\* int(b) of a Python bool
BoolToInt(b) == IF b THEN 1 ELSE 0

\* max(values): the first of the largest elements
RECURSIVE max(_)
max(values) ==
    IF Len(values) = 1 THEN values[1]
    ELSE LET m == max(SubSeq(values, 1, Len(values) - 1))
             x == values[Len(values)]
         IN  IF BoolToInt(x) > BoolToInt(m) THEN x ELSE m

\* min(values): the first of the smallest elements
RECURSIVE min(_)
min(values) ==
    IF Len(values) = 1 THEN values[1]
    ELSE LET m == min(SubSeq(values, 1, Len(values) - 1))
             x == values[Len(values)]
         IN  IF BoolToInt(x) < BoolToInt(m) THEN x ELSE m

\* the loop of merge_reduce over sources[i..]
RECURSIVE CollectTheirs(_, _, _, _)
CollectTheirs(values, sources, field_name, i) ==
    IF i > Len(sources) THEN values
    ELSE LET theirs == getattr(sources[i], field_name)
         IN  CollectTheirs(IF theirs # None THEN Append(values, theirs.v) ELSE values,
                           sources, field_name, i + 1)

\* f(values) for the reducer named f
Apply(f, values) == IF f = "max" THEN max(values) ELSE min(values)

merge_reduce(target, sources, field_name, f) ==
    LET ours == getattr(target, field_name)
        values0 == IF ours # None THEN <<ours.v>> ELSE <<>>
        values == CollectTheirs(values0, sources, field_name, 1)
    IN  IF values # <<>> THEN Return(Some(Apply(f, values))) ELSE Return(None)

\* the reducers exchanged
sticky_bool_with_min(target, sources, field_name) ==
    merge_reduce(target, sources, field_name, "min")

merge_sticky_bool(target, sources, field_name) ==
    merge_reduce(target, sources, field_name, "max")

merge_weak_bool(target, sources, field_name) ==
    merge_reduce(target, sources, field_name, "min")

MergeInputs ==
    {[target |-> t, sources |-> ss, field_name |-> "final"] :
        t \in Objects, ss \in SeqsUpTo(Objects, MaxSources)}

InitMerge == call = "none" /\ args \in MergeInputs /\ ret = NotCalled

MergeStickyBool ==
    /\ call = "none"
    /\ call' = "merge_sticky_bool"
    /\ ret' = merge_sticky_bool(args.target, args.sources, args.field_name)
    /\ UNCHANGED args

MergeWeakBool ==
    /\ call = "none"
    /\ call' = "merge_weak_bool"
    /\ ret' = merge_weak_bool(args.target, args.sources, args.field_name)
    /\ UNCHANGED args

NextMerge == MergeStickyBool \/ MergeWeakBool

SpecMerge == InitMerge /\ [][NextMerge]_vars

\* the values of the field that are present on the target or on a source
PresentValues ==
    {o[args.field_name].v : o \in {x \in {args.target} \cup SeqToSet(args.sources) :
                                      x[args.field_name].some}}

\* C8: merge_sticky_bool is true if a present value is true, false if values
\* are present and none is true, absent if every value is absent;
\* merge_weak_bool is false if a present value is false, true if values are
\* present and none is false, absent if every value is absent.
C8_MergeReducers ==
    /\ call = "merge_sticky_bool" =>
          ret = Return(IF PresentValues = {} THEN None ELSE Some(TRUE \in PresentValues))
    /\ call = "merge_weak_bool" =>
          ret = Return(IF PresentValues = {} THEN None ELSE Some(FALSE \notin PresentValues))

\* target absent, sources [true, false, absent]: the sticky merge is true
C8_Witness ==
    /\ call = "merge_sticky_bool"
    /\ args.target.final = None
    /\ args.sources = <<[final |-> Some(TRUE)], [final |-> Some(FALSE)], [final |-> None]>>
    /\ ret = Return(Some(TRUE))

(***************************************************************************)
(* Name suggestions.  A string is the sequence of its characters; strings  *)
(* are ordered as Python orders them, by code point.  A schema object has  *)
(* a qualified name, a short name, a display name and a class.             *)
(***************************************************************************)
MaxPool == 3

MaxLimit == 3

Ord ==
    [c \in {":", "A", "O", "P", "U", "b", "d", "e", "f", "i", "l", "m", "o", "r", "s", "t", "x"} |->
        CASE c = ":" -> 58 [] c = "A" -> 65 [] c = "O" -> 79 [] c = "P" -> 80
          [] c = "U" -> 85 [] c = "b" -> 98 [] c = "d" -> 100 [] c = "e" -> 101 [] c = "f" -> 102
          [] c = "i" -> 105 [] c = "l" -> 108 [] c = "m" -> 109 [] c = "o" -> 111
          [] c = "r" -> 114 [] c = "s" -> 115 [] c = "t" -> 116 [] c = "x" -> 120]

Min2(a, b) == IF a <= b THEN a ELSE b

\* a < b for two str
StrLess(a, b) ==
    LET n == Min2(Len(a), Len(b))
        diff == {i \in 1..n : a[i] # b[i]}
    IN  IF diff = {} THEN Len(a) < Len(b)
        ELSE LET i == CHOOSE k \in diff : \A l \in diff : k <= l
             IN  Ord[a[i]] < Ord[b[i]]

\* s.startswith(prefix)
startswith(s, prefix) == Len(prefix) <= Len(s) /\ SubSeq(s, 1, Len(prefix)) = prefix

\* one row of the edit-distance table: the row of a[1..i] from the row of
\* a[1..i-1], filled from column j on
RECURSIVE LevRow(_, _, _, _, _)
LevRow(prev, row, ch, b, j) ==
    IF j > Len(b) THEN row
    ELSE LET cost == IF ch = b[j] THEN 0 ELSE 1
             cell == Min2(Min2(prev[j + 1] + 1, row[j] + 1), prev[j] + cost)
         IN  LevRow(prev, Append(row, cell), ch, b, j + 1)

RECURSIVE LevRows(_, _, _, _)
LevRows(prev, a, b, i) ==
    IF i > Len(a) THEN prev
    ELSE LevRows(LevRow(prev, <<i>>, a[i], b, 1), a, b, i + 1)

\* levenshtein.distance(a, b)
distance(a, b) == LevRows([j \in 1..(Len(b) + 1) |-> j - 1], a, b, 1)[Len(b) + 1]

Name(module, name) == [module |-> module, name |-> name]

\* str(name) of a qualified name: module::name
displayname(name) == name.module \o <<":", ":">> \o name.name

SchemaObject(module, name, cls) ==
    [name |-> Name(module, name), shortname |-> Name(module, name),
     displayname |-> displayname(Name(module, name)), cls |-> cls]

std == <<"s", "t", "d">>

ModM == <<"m">>

ModLib == <<"l", "i", "b">>

\* a module alias that is not the name of a module
ModX == <<"x">>

ModuleM ==
    << SchemaObject(ModM, <<"U", "s", "e", "r">>, "ObjectType"),
       SchemaObject(ModM, <<"U", "s", "e", "r", "s">>, "ObjectType"),
       SchemaObject(ModM, <<"U", "s", "e", "r", "P", "r", "o", "f", "i", "l", "e">>, "ObjectType"),
       SchemaObject(ModM, <<"O", "r", "d", "e", "r">>, "ObjectType") >>

ModuleStd ==
    << SchemaObject(std, <<"U", "s", "r">>, "ScalarType") >>

ModuleLib ==
    << SchemaObject(ModLib, <<"A", "s", "e", "r">>, "ScalarType") >>

\* schema.get_module(modname).get_objects()
get_objects(schema, modname) == schema[modname]

TheSchema ==
    [mod \in {ModM, std, ModLib} |->
        IF mod = ModM THEN ModuleM ELSE IF mod = std THEN ModuleStd ELSE ModuleLib]

\* dict.get(key, default) of the module aliases, a set of <<key, value>> pairs
AliasGet(modaliases, key, default) ==
    IF \E p \in modaliases : p[1] = key
    THEN Some((CHOOSE p \in modaliases : p[1] = key)[2])
    ELSE default

\* isinstance(s, item_types)
isinstance(s, item_types) == s.cls \in item_types

\* the standard module added when the resolved module is undetermined
candidate_pool_std_by_modname(orig_modname, modaliases, schema, collection) ==
    LET modname == AliasGet(modaliases, orig_modname, orig_modname)
    IN  IF collection # None THEN collection.v
        ELSE (IF modname # None /\ modname.v # <<>>
              THEN get_objects(schema.v, modname.v) ELSE <<>>)
             \o (IF modname = None \/ modname.v = <<>>
                 THEN get_objects(schema.v, std) ELSE <<>>)

\* the list of suggestions before the item_types filter (lines 276-288)
CandidatePool(orig_modname, modaliases, schema, collection) ==
    LET modname == AliasGet(modaliases, orig_modname, orig_modname)
    IN  IF collection # None THEN collection.v
        ELSE (IF modname # None /\ modname.v # <<>>
              THEN get_objects(schema.v, modname.v) ELSE <<>>)
             \o (IF orig_modname = None \/ orig_modname.v = <<>>
                 THEN get_objects(schema.v, std) ELSE <<>>)

FilterTypes(suggestions, item_types) ==
    IF item_types # None /\ item_types.v # {}
    THEN SelectSeq(suggestions, LAMBDA x : isinstance(x, item_types.v))
    ELSE suggestions

\* the distance taken to the display name of the suggestion
with_distance_of_displayname(short_name, suggestions) ==
    [i \in 1..Len(suggestions) |->
        <<suggestions[i], distance(short_name, suggestions[i].displayname)>>]

WithDistance(short_name, suggestions) ==
    [i \in 1..Len(suggestions) |->
        <<suggestions[i], distance(short_name, suggestions[i].shortname.name)>>]

max_distance == 3

\* the bound taken inclusively
closest_inclusive(with_distance) == SelectSeq(with_distance, LAMBDA x : x[2] <= max_distance)

Closest(with_distance) == SelectSeq(with_distance, LAMBDA x : x[2] < max_distance)

\* the sort key without the prefix test
sort_key_no_prefix(short_name, x) ==
    <<x[2], 0, x[1].displayname>>

\* the sort key of a scored suggestion
SortKey(short_name, x) ==
    <<x[2], IF startswith(x[1].shortname.name, short_name) THEN 0 ELSE 1, x[1].displayname>>

\* k1 < k2 for two sort keys
KeyLess(k1, k2) ==
    \/ k1[1] < k2[1]
    \/ k1[1] = k2[1] /\ k1[2] < k2[2]
    \/ k1[1] = k2[1] /\ k1[2] = k2[2] /\ StrLess(k1[3], k2[3])

\* list.sort(key=...) is stable: x goes before the first element of a
\* greater key
RECURSIVE InsertByKey(_, _, _)
InsertByKey(sorted, x, short_name) ==
    IF sorted = <<>> THEN <<x>>
    ELSE IF KeyLess(SortKey(short_name, x), SortKey(short_name, Head(sorted)))
         THEN <<x>> \o sorted
         ELSE <<Head(sorted)>> \o InsertByKey(Tail(sorted), x, short_name)

RECURSIVE SortByKey(_, _)
SortByKey(s, short_name) ==
    IF s = <<>> THEN <<>>
    ELSE InsertByKey(SortByKey(SubSeq(s, 1, Len(s) - 1), short_name), s[Len(s)], short_name)

\* s[:limit]
SliceTo(s, limit) ==
    IF limit >= 0 THEN SubSeq(s, 1, Min2(limit, Len(s)))
    ELSE SubSeq(s, 1, Len(s) + limit)

\* the result carries, beside the value returned, the list of suggestions
\* as it is before the item_types filter
find_item_suggestions(name, modaliases, schema, item_types, limit, collection) ==
    LET orig_modname == name.module
        short_name == name.name
        pool == CandidatePool(orig_modname, modaliases, schema, collection)
        suggestions == FilterTypes(pool, item_types)
        closest == SortByKey(Closest(WithDistance(short_name, suggestions)), short_name)
        top == SliceTo(closest, limit)
    IN  [ok |-> TRUE, val |-> [i \in 1..Len(top) |-> top[i][1]], pool |-> pool]

Universe == SeqToSet(ModuleM) \cup SeqToSet(ModuleStd) \cup SeqToSet(ModuleLib)

Queries == {<<"U", "s", "r", "e">>, <<"U", "s", "e", "r">>, <<"U", "s">>}

ItemTypes == {None, Some({}), Some({"ObjectType"})}

Pools == {c \in SeqsUpTo(Universe, MaxPool) : Distinct(c)}

\* with a collection the schema is None; without one the name is
\* unqualified, qualified by a module or qualified by the alias x of m
SuggestInputs ==
    {[name |-> Name(None, q), modaliases |-> {}, schema |-> None,
      item_types |-> t, limit |-> l, collection |-> Some(c)] :
        q \in Queries, t \in ItemTypes, l \in 0..MaxLimit, c \in Pools}
    \cup
    {[name |-> Name(mod, q), modaliases |-> al, schema |-> Some(TheSchema),
      item_types |-> t, limit |-> l, collection |-> None] :
        q \in Queries, mod \in {None, Some(ModM), Some(std)},
        al \in {{}, {<<None, ModM>>}, {<<None, std>>}},
        t \in ItemTypes, l \in 0..MaxLimit}
    \cup
    {[name |-> Name(Some(ModX), q), modaliases |-> {<<Some(ModX), ModM>>},
      schema |-> Some(TheSchema), item_types |-> t, limit |-> l, collection |-> None] :
        q \in Queries, t \in ItemTypes, l \in 0..MaxLimit}

FindItemSuggestions ==
    /\ call = "none"
    /\ "name" \in DOMAIN args
    /\ call' = "find_item_suggestions"
    /\ ret' = find_item_suggestions(args.name, args.modaliases, args.schema,
                                    args.item_types, args.limit, args.collection)
    /\ UNCHANGED args

(***************************************************************************)
(* Lookup errors.  An error has a kind, a message, a source context and    *)
(* the diagnostic pair (hint, details); texts are sequences of characters. *)
(***************************************************************************)
SchemaError(kind, message, context, hint, details) ==
    [kind |-> kind, message |-> message, context |-> context, hint |-> hint, details |-> details]

\* error.set_hint_and_details(hint=hint)
set_hint_and_details(error, hint) == [error EXCEPT !.hint = Some(hint)]

\* sep.join(names)
RECURSIVE Join(_, _)
Join(sep, names) ==
    IF names = <<>> THEN <<>>
    ELSE IF Len(names) = 1 THEN names[1]
    ELSE names[1] \o sep \o Join(sep, Tail(names))

\* repr(name) of a str without quotes in it
Repr(name) == <<"'">> \o name \o <<"'">>

\* name_template.format(name=name) for a template prefix{name}suffix
Format(name_template, name) == name_template[1] \o name \o name_template[2]

DidYouMean == <<"d", "i", "d", " ", "y", "o", "u", " ", "m", "e", "a", "n", " ">>

OneOfThese == <<"o", "n", "e", " ", "o", "f", " ", "t", "h", "e", "s", "e", ":", " ">>

\* the name a suggestion is shown by (lines 329-334)
RenderName(suggestion, current_module_name) ==
    IF suggestion.name.module = std \/ Some(suggestion.name.module) = current_module_name
    THEN suggestion.shortname.name
    ELSE suggestion.displayname

\* the plural form used for a single name as well
hint_always_plural(names) == DidYouMean \o OneOfThese \o Join(<<",", " ">>, names) \o <<"?">>

\* the hint for a non-empty list of names (lines 339-342)
HintFor(names) ==
    IF Len(names) > 1
    THEN DidYouMean \o OneOfThese \o Join(<<",", " ">>, names) \o <<"?">>
    ELSE DidYouMean \o Repr(names[1]) \o <<"?">>

\* the result carries the error as the call leaves it
enrich_schema_lookup_error(error, item_name, modaliases, schema, item_types, suggestion_limit, name_template, collection) ==
    LET suggestions == find_item_suggestions(item_name, modaliases, schema, item_types,
                                             suggestion_limit, collection).val
        current_module_name == AliasGet(modaliases, None, None)
        names0 == [i \in 1..Len(suggestions) |-> RenderName(suggestions[i], current_module_name)]
        names == IF name_template # None
                 THEN [i \in 1..Len(names0) |-> Format(name_template.v, names0[i])]
                 ELSE names0
    IN  [ok |-> TRUE, val |-> None,
         error |-> IF suggestions # <<>> THEN set_hint_and_details(error, HintFor(names))
                   ELSE error]

\* the default module, the name template and the error of a call
EnrichContexts ==
    {<<{}, None, SchemaError("ItemNotFoundError", <<"n", "o">>, None, None, None)>>,
     <<{<<None, ModM>>}, Some(<<<<".">>, <<>>>>),
       SchemaError("ItemNotFoundError", <<"n", "o">>, Some(<<1>>),
                   Some(<<"o", "l", "d">>), Some(<<"w", "h", "y">>))>>,
     <<{<<None, ModLib>>}, None,
       SchemaError("ItemNotFoundError", <<"n", "o">>, Some(<<1>>),
                   Some(<<"o", "l", "d">>), Some(<<"w", "h", "y">>))>>}

EnrichInputs ==
    {[error |-> c[3], item_name |-> Name(None, <<"U", "s", "e", "r">>), modaliases |-> c[1],
      schema |-> None, item_types |-> None, suggestion_limit |-> l,
      name_template |-> c[2], collection |-> Some(p)] :
        c \in EnrichContexts, l \in 0..MaxLimit, p \in Pools}

InitSuggest == call = "none" /\ args \in SuggestInputs \cup EnrichInputs /\ ret = NotCalled

EnrichSchemaLookupError ==
    /\ call = "none"
    /\ "error" \in DOMAIN args
    /\ call' = "enrich_schema_lookup_error"
    /\ ret' = enrich_schema_lookup_error(args.error, args.item_name, args.modaliases,
                                         args.schema, args.item_types, args.suggestion_limit,
                                         args.name_template, args.collection)
    /\ UNCHANGED args

NextSuggest == FindItemSuggestions \/ EnrichSchemaLookupError

SpecSuggest == InitSuggest /\ [][NextSuggest]_vars

(***************************************************************************)
(* Properties of the suggestions.                                          *)
(***************************************************************************)
\* the candidates of the call in args that pass the item_types filter
FilteredPool ==
    LET pool == CandidatePool(args.name.module, args.modaliases, args.schema, args.collection)
    IN  IF args.item_types = None \/ args.item_types.v = {} THEN pool
        ELSE SelectSeq(pool, LAMBDA o : o.cls \in args.item_types.v)

\* the filtered candidates at distance less than 3 of the queried short name
Survivors == SelectSeq(FilteredPool, LAMBDA o : distance(args.name.name, o.shortname.name) < 3)

Count(s, x) == Cardinality({i \in 1..Len(s) : s[i] = x})

\* the ranking key of the claim: distance, not a prefix match, display name
RankKey(o) ==
    <<distance(args.name.name, o.shortname.name),
      IF startswith(o.shortname.name, args.name.name) THEN 0 ELSE 1,
      o.displayname>>

RankLeq(a, b) == ~ KeyLess(RankKey(b), RankKey(a))

\* C9: find_item_suggestions returns at most limit objects, each one a
\* candidate that passed the item_types filter and is at edit distance
\* strictly less than 3 of the queried short name.
C9_SuggestionsAreCloseCandidates ==
    call = "find_item_suggestions" =>
        /\ ret.ok
        /\ Len(ret.val) <= args.limit
        /\ \A i \in 1..Len(ret.val) :
              /\ ret.val[i] \in SeqToSet(FilteredPool)
              /\ distance(args.name.name, ret.val[i].shortname.name) < 3

\* a candidate at distance exactly 3 is in the pool and is left out while
\* the limit is not exhausted
C9_Witness ==
    /\ call = "find_item_suggestions"
    /\ ret.ok
    /\ ret.val # <<>>
    /\ Len(ret.val) < args.limit
    /\ \E o \in SeqToSet(FilteredPool) :
          distance(args.name.name, o.shortname.name) = 3 /\ o \notin SeqToSet(ret.val)

\* C10: the result is the first limit of the surviving candidates in
\* ascending order of (distance, not a prefix match, display name).
C10_SuggestionsAreRanked ==
    call = "find_item_suggestions" =>
        /\ ret.ok
        /\ Len(ret.val) = Min2(args.limit, Len(Survivors))
        /\ \A i, j \in 1..Len(ret.val) : i < j => RankLeq(ret.val[i], ret.val[j])
        /\ \A o \in SeqToSet(Survivors) :
              /\ Count(ret.val, o) <= Count(Survivors, o)
              /\ Count(ret.val, o) < Count(Survivors, o) =>
                    \A i \in 1..Len(ret.val) : RankLeq(ret.val[i], o)

\* two suggestions at the same distance, the prefix match first although
\* its display name is the greater one, and a survivor cut by the limit
C10_Witness ==
    /\ call = "find_item_suggestions"
    /\ ret.ok
    /\ Len(ret.val) < Len(Survivors)
    /\ \E i, j \in 1..Len(ret.val) :
          /\ i < j
          /\ RankKey(ret.val[i])[1] = RankKey(ret.val[j])[1]
          /\ RankKey(ret.val[i])[2] < RankKey(ret.val[j])[2]
          /\ StrLess(ret.val[j].displayname, ret.val[i].displayname)

ShortNames(objs) == [i \in 1..Len(objs) |-> objs[i].shortname.name]

\* the candidates are exactly User, Users, UserProfile and Order, the query
\* is Usre and the limit is 3
RankingExample ==
    /\ call = "find_item_suggestions"
    /\ args.name.name = <<"U", "s", "r", "e">>
    /\ args.limit = 3
    /\ Len(FilteredPool) = 4
    /\ SeqToSet(FilteredPool) = SeqToSet(ModuleM)

\* C11 as stated: with the candidates User, Users, UserProfile and Order,
\* the query Usre and limit 3, the result is [User, Users, UserProfile].
C11_AsStated ==
    RankingExample
        => /\ ret.ok
           /\ ShortNames(ret.val) =
                << <<"U", "s", "e", "r">>, <<"U", "s", "e", "r", "s">>,
                   <<"U", "s", "e", "r", "P", "r", "o", "f", "i", "l", "e">> >>

\* C11 amended: with the candidates User, Users, UserProfile and Order, the
\* query Usre and limit 3, the result is [User, Users]; UserProfile and Order
\* are both excluded, their edit distance to Usre being 3 or more.
C11_RankingExample ==
    RankingExample
        => /\ ret.ok
           /\ ShortNames(ret.val) = << <<"U", "s", "e", "r">>, <<"U", "s", "e", "r", "s">> >>

C11_Witness ==
    /\ RankingExample
    /\ ret.ok
    /\ Len(ret.val) = 2

\* the module the queried name resolves to through the aliases
ResolvedModule ==
    LET al == {p \in args.modaliases : p[1] = args.name.module}
    IN  IF al # {} THEN Some((CHOOSE p \in al : TRUE)[2]) ELSE args.name.module

\* C12: with a collection the pool is exactly the collection and the schema
\* is not consulted; otherwise the pool is the objects of the module the
\* name's module resolves to through the aliases (when one is determined)
\* plus the objects of the standard module iff the name has no module
\* qualifier.
C12_CandidatePool ==
    call = "find_item_suggestions" =>
        /\ ret.ok
        /\ args.collection # None => ret.pool = args.collection.v
        /\ args.collection = None =>
              SeqToSet(ret.pool) =
                  (IF ResolvedModule # None THEN SeqToSet(TheSchema[ResolvedModule.v]) ELSE {})
                  \cup (IF args.name.module = None THEN SeqToSet(TheSchema[std]) ELSE {})

\* an unqualified name whose default module is m: the pool is the objects
\* of m and the objects of std
C12_Witness ==
    /\ call = "find_item_suggestions"
    /\ args.collection = None
    /\ args.name.module = None
    /\ ResolvedModule = Some(ModM)
    /\ ret.ok
    /\ ret.pool = ModuleM \o ModuleStd

\* the suggestions of the enrich call in args
EnrichSuggestions ==
    find_item_suggestions(args.item_name, args.modaliases, args.schema, args.item_types,
                          args.suggestion_limit, args.collection).val

\* the name shown for a suggestion: the short name when its module is std
\* or the caller's default module, the qualified name otherwise, passed
\* through the name template when there is one
ShownName(o) ==
    LET short == \/ o.name.module = std
                 \/ \E p \in args.modaliases : p[1] = None /\ p[2] = o.name.module
        plain == IF short THEN o.shortname.name ELSE o.name.module \o <<":", ":">> \o o.name.name
    IN  IF args.name_template = None THEN plain
        ELSE args.name_template.v[1] \o plain \o args.name_template.v[2]

RECURSIVE CommaSeparated(_, _)
CommaSeparated(objs, i) ==
    IF i > Len(objs) THEN <<>>
    ELSE (IF i > 1 THEN <<",", " ">> ELSE <<>>) \o ShownName(objs[i]) \o CommaSeparated(objs, i + 1)

MaxNodes == 3

TypeName(maintype, subtypes, name, context) ==
    [maintype |-> maintype, subtypes |-> subtypes, name |-> name, context |-> context]

ObjectRef(classname) == [kind |-> "ObjectRef", classname |-> classname]

\* str(si) of a subtype index
DecimalDigits == <<"0", "1", "2", "3", "4", "5", "6", "7", "8", "9">>

str(si) == DecimalDigits[si + 1]

\* subtypes[type_name] = value on an OrderedDict
DictSet(dict, key, value) ==
    IF \E i \in 1..Len(dict) : dict[i][1] = key
    THEN [i \in 1..Len(dict) |-> IF dict[i][1] = key THEN <<key, value>> ELSE dict[i]]
    ELSE Append(dict, <<key, value>>)

\* the keys of the elements are the decimal indexes 0, 1, ...
PositionalKeys(dict) == \A i \in 1..Len(dict) : dict[i][1] = str(i - 1)

\* Array.from_subtypes(subtypes)
ArrayFromSubtypes(subtypes) ==
    IF Len(subtypes) # 1 THEN Raise("InvalidTypeDefinition", None)
    ELSE Return([kind |-> "Array", element_types |-> <<<<str(0), subtypes[1]>>>>, named |-> FALSE])

\* Tuple.from_subtypes(subtypes, typemods)
TupleFromSubtypes(subtypes, named) ==
    IF named # (subtypes # <<>> /\ ~ PositionalKeys(subtypes))
    THEN Raise("InvalidTypeDefinition", None)
    ELSE Return([kind |-> "Tuple", element_types |-> subtypes, named |-> named])

\* Collection.get_class(keyword), as the kind of the collection
get_class(keyword) == IF keyword = "tuple" THEN "Tuple" ELSE "Array"

\* Collection.schema_name
schema_name(t) == IF t.kind = "Tuple" THEN "tuple" ELSE "array"

\* Collection.get_subtypes()
get_subtypes(t) == [i \in 1..Len(t.element_types) |-> t.element_types[i][2]]

\* e.set_source_context(context)
set_source_context(e, context) == [e EXCEPT !.context = context]

\* The schema of the type names: each entry maps the name it is looked up
\* by to the name (with the canonical module) of the object found.
TypeSchema ==
    { <<Name("m", "T"), Name("m", "T")>>,
      <<Name("m", "U"), Name("m", "U")>>,
      <<Name("m", "V"), Name("std", "V")>>,
      <<Name("std", "V"), Name("std", "V")>> }

\* schema.get(lname, module_aliases=modaliases, default=None): the module of
\* lname (None for an unqualified name) is resolved through the aliases and
\* the qualified name is looked up
schema_get(schema, module, nqname, modaliases) ==
    LET resolved == AliasGet(modaliases, module, module)
    IN  IF resolved # None /\ \E e \in schema : e[1] = Name(resolved.v, nqname)
        THEN Some([kind |-> "Object",
                   name |-> (CHOOSE e \in schema : e[1] = Name(resolved.v, nqname))[2]])
        ELSE None

\* the module of the name ast_to_typeref refers to (lines 83-94)
ResolveModule(node, modaliases, schema) ==
    LET nqname == node.maintype.name
        module == node.maintype.module
    IN  IF schema # None
        THEN LET obj == schema_get(schema.v, module, nqname, modaliases)
             IN  IF obj # None THEN Some(obj.v.name.module) ELSE module
        ELSE IF modaliases # {} THEN AliasGet(modaliases, module, None)
        ELSE module

RECURSIVE ast_to_typeref(_, _, _)
RECURSIVE TupleSubtypes(_, _, _, _, _, _, _)
RECURSIVE ListSubtypes(_, _, _, _, _)

\* the loop of lines 45-61 from subtype si on (si counts from 0)
TupleSubtypes(node, si, subtypes, named, unnamed, modaliases, schema) ==
    IF si >= Len(node.subtypes.v) THEN Return(<<subtypes, named>>)
    ELSE LET st == node.subtypes.v[si + 1]
             isnamed == st.name # None /\ st.name.v # ""
             named1 == IF isnamed THEN Some(TRUE) ELSE named
             unnamed1 == IF isnamed THEN unnamed ELSE Some(TRUE)
             type_name == IF isnamed THEN st.name.v ELSE str(si)
         IN  IF named1 # None /\ unnamed1 # None
             THEN Raise("ItemNotFoundError", node.subtypes.v[1].context)
             ELSE LET sub == ast_to_typeref(st, modaliases, schema)
                  IN  IF ~ sub.ok THEN sub
                      ELSE TupleSubtypes(node, si + 1, DictSet(subtypes, type_name, sub.val),
                                         named1, unnamed1, modaliases, schema)

\* the loop of lines 73-75 from subtype i on
\* a subtype that fails is left out of the list
list_subtypes_skipping_failures(node, i, subtypes, modaliases, schema) ==
    IF i > Len(node.subtypes.v) THEN Return(subtypes)
    ELSE LET sub == ast_to_typeref(node.subtypes.v[i], modaliases, schema)
         IN  ListSubtypes(node, i + 1, IF sub.ok THEN Append(subtypes, sub.val) ELSE subtypes,
                          modaliases, schema)

\* the failure of a subtype is relocated to the enclosing node
list_subtypes_relocating_failures(node, i, subtypes, modaliases, schema) ==
    IF i > Len(node.subtypes.v) THEN Return(subtypes)
    ELSE LET sub == ast_to_typeref(node.subtypes.v[i], modaliases, schema)
         IN  IF ~ sub.ok THEN set_source_context(sub, node.context)
             ELSE ListSubtypes(node, i + 1, Append(subtypes, sub.val), modaliases, schema)

ListSubtypes(node, i, subtypes, modaliases, schema) ==
    IF i > Len(node.subtypes.v) THEN Return(subtypes)
    ELSE LET sub == ast_to_typeref(node.subtypes.v[i], modaliases, schema)
         IN  IF ~ sub.ok THEN sub
             ELSE ListSubtypes(node, i + 1, Append(subtypes, sub.val), modaliases, schema)

ast_to_typeref(node, modaliases, schema) ==
    IF node.subtypes # None
    THEN LET coll == get_class(node.maintype.name)
         IN  IF coll = "Tuple"
             THEN LET loop == TupleSubtypes(node, 0, <<>>, None, None, modaliases, schema)
                  IN  IF ~ loop.ok THEN loop
                      ELSE LET made == TupleFromSubtypes(loop.val[1], loop.val[2] = Some(TRUE))
                           IN  IF made.ok THEN made
                               ELSE set_source_context(made, node.subtypes.v[1].context)
             ELSE LET loop == ListSubtypes(node, 1, <<>>, modaliases, schema)
                  IN  IF ~ loop.ok THEN loop
                      ELSE LET made == ArrayFromSubtypes(loop.val)
                           IN  IF made.ok THEN made
                               ELSE set_source_context(made, node.context)
    ELSE LET module == ResolveModule(node, modaliases, schema)
         IN  IF module = None
             THEN Raise("ItemNotFoundError", node.context)
             ELSE Return(ObjectRef(Name(module.v, node.maintype.name)))

RECURSIVE typeref_to_ast(_)
typeref_to_ast(t) ==
    IF t.kind \notin {"Array", "Tuple"}
    THEN LET name == IF t.kind = "ObjectRef" THEN t.classname ELSE t.name
         IN  TypeName(Name(Some(name.module), name.name), None, None, None)
    ELSE TypeName(Name(None, schema_name(t)),
                  Some([i \in 1..Len(get_subtypes(t)) |-> typeref_to_ast(get_subtypes(t)[i])]),
                  None, None)

\* the field names of the elements of a named tuple, by position
FieldNames == <<"a", "b", "c", "d", "e", "f", "g", "h">>

\* a resolved type: an object of the schema, known by its name
ResolvedObject(name) == [kind |-> "Object", name |-> name]

\* schema.get(name) without a default: a miss is the schema's own failure
schema_get_or_fail(schema, name) ==
    IF \E e \in schema : e[1] = name
    THEN Return(ResolvedObject((CHOOSE e \in schema : e[1] = name)[2]))
    ELSE Raise("ItemNotFoundError", None)

\* st.classname: an attribute of an ObjectRef only (lines 107-110 read
\* t.classname of an ObjectRef and t.name of any other object)
classname_of(st) ==
    IF st.kind = "ObjectRef" THEN Return(st.classname) ELSE Raise("AttributeError", None)

\* schema.get(st.classname)
ResolveElement(st, schema) ==
    IF ~ classname_of(st).ok THEN classname_of(st)
    ELSE schema_get_or_fail(schema, classname_of(st).val)

\* the loops of lines 140-141 and 151-152 from element i on; a tuple keeps
\* the key of each element
RECURSIVE ResolveElements(_, _, _, _)
ResolveElements(ref, i, subtypes, schema) ==
    IF i > Len(ref.element_types) THEN Return(subtypes)
    ELSE LET obj == ResolveElement(ref.element_types[i][2], schema)
         IN  IF ~ obj.ok THEN obj
             ELSE ResolveElements(ref, i + 1,
                     IF ref.kind = "Tuple"
                     THEN DictSet(subtypes, ref.element_types[i][1], obj.val)
                     ELSE Append(subtypes, obj.val),
                     schema)

resolve_typeref(ref, schema) ==
    IF ref.kind \in {"Tuple", "Array"}
    THEN IF \E i \in 1..Len(get_subtypes(ref)) : get_subtypes(ref)[i].kind = "ObjectRef"
         THEN LET subtypes == ResolveElements(ref, 1, <<>>, schema)
              IN  IF ~ subtypes.ok THEN subtypes
                  ELSE IF ref.kind = "Tuple"
                       THEN TupleFromSubtypes(subtypes.val, ref.named)
                       ELSE ArrayFromSubtypes(subtypes.val)
         ELSE Return(ref)
    ELSE ResolveElement(ref, schema)

\* the elements of the references given to resolve_typeref
RefElements ==
    {ObjectRef(Name("m", "T")), ObjectRef(Name("m", "V")), ObjectRef(Name("m", "X")),
     ResolvedObject(Name("m", "U")), ResolvedObject(Name("std", "V"))}

\* the tuples of at most MaxNodes nodes, positional or named by position
RefTuples ==
    UNION {{[kind |-> "Tuple",
             element_types |-> [i \in 1..n |-> <<IF named THEN FieldNames[i] ELSE str(i - 1), els[i]>>],
             named |-> named] :
                els \in [1..n -> RefElements], named \in (IF n = 0 THEN {FALSE} ELSE BOOLEAN)} :
           n \in 0..(MaxNodes - 1)}

RefArrays ==
    {[kind |-> "Array", element_types |-> <<<<str(0), e>>>>, named |-> FALSE] : e \in RefElements}

ResolveInputs ==
    {[ref |-> r, schema |-> TypeSchema] : r \in RefTuples \cup RefArrays \cup RefElements}

\* the names a leaf of a type expression may carry
LeafNames ==
    {Name(None, "T"), Name(None, "X"), Name(Some("m"), "T"), Name(Some("m"), "U"),
     Name(Some("m"), "V"), Name(Some("m"), "X")}

\* a subtype of a tuple is positional or carries the field name of its
\* position; a subtype of an array carries no field name
Slots(trees, i, keyword) ==
    IF keyword = "tuple"
    THEN trees \cup {[t EXCEPT !.name = Some(FieldNames[i])] : t \in trees}
    ELSE trees

RECURSIVE TreesAt(_, _)
RECURSIVE ForestsAt(_, _, _, _)

\* the type expressions of exactly n nodes whose root has context ctx
TreesAt(n, ctx) ==
    IF n = 1
    THEN {TypeName(l, None, None, Some(ctx)) : l \in LeafNames}
         \cup {TypeName(Name(None, kw), Some(<<>>), None, Some(ctx)) : kw \in {"array", "tuple"}}
    ELSE UNION {{TypeName(Name(None, kw), Some(f), None, Some(ctx)) :
                    f \in ForestsAt(n - 1, ctx, 1, kw)} : kw \in {"array", "tuple"}}

\* the lists of subtypes of k nodes in all, the first one being subtype i
ForestsAt(k, ctx, i, kw) ==
    IF k = 0 THEN {<<>>}
    ELSE UNION {{<<t>> \o rest :
                    t \in Slots(TreesAt(j, ctx \o <<i>>), i, kw),
                    rest \in ForestsAt(k - j, ctx, i + 1, kw)} : j \in 1..k}

TypeNodes == UNION {TreesAt(n, <<>>) : n \in 1..MaxNodes}

TypeInputs ==
    {[node |-> n, modaliases |-> al, schema |-> sc] :
        n \in TypeNodes, al \in {{}, {<<None, "m">>}}, sc \in {None, Some(TypeSchema)}}

InitTypes == call = "none" /\ args \in TypeInputs \cup ResolveInputs /\ ret = NotCalled

AstToTyperef ==
    /\ call = "none"
    /\ "node" \in DOMAIN args
    /\ call' = "ast_to_typeref"
    /\ ret' = ast_to_typeref(args.node, args.modaliases, args.schema)
    /\ UNCHANGED args

\* typeref_to_ast applied to the type a successful ast_to_typeref returned
TyperefToAst ==
    /\ call = "ast_to_typeref"
    /\ ret.ok
    /\ call' = "typeref_to_ast"
    /\ args' = [t |-> ret.val, modaliases |-> args.modaliases, schema |-> args.schema]
    /\ ret' = Return(typeref_to_ast(ret.val))

\* ast_to_typeref applied to the node typeref_to_ast returned
RoundTrip ==
    /\ call = "typeref_to_ast"
    /\ call' = "round_trip"
    /\ ret' = ast_to_typeref(ret.val, args.modaliases, args.schema)
    /\ UNCHANGED args

ResolveTyperef ==
    /\ call = "none"
    /\ "ref" \in DOMAIN args
    /\ call' = "resolve_typeref"
    /\ ret' = resolve_typeref(args.ref, args.schema)
    /\ UNCHANGED args

NextTypes == AstToTyperef \/ TyperefToAst \/ RoundTrip \/ ResolveTyperef

SpecTypes == InitTypes /\ [][NextTypes]_vars

(***************************************************************************)
(* Properties of the type references.                                      *)
(***************************************************************************)
IsTupleNode(node) == node.subtypes # None /\ node.maintype.name = "tuple"

\* some subtype of the node carries a field name and some subtype does not
MixedModes(node) ==
    /\ \E i \in 1..Len(node.subtypes.v) : node.subtypes.v[i].name # None
    /\ \E i \in 1..Len(node.subtypes.v) : node.subtypes.v[i].name = None

\* C1 as stated: ast_to_typeref on a tuple node whose subtypes mix named and
\* positional modes fails with InvalidTypeDefinition located at the first
\* subtype.
C1_MixedTupleIsInvalidTypeDefinition ==
    (call = "ast_to_typeref" /\ IsTupleNode(args.node) /\ MixedModes(args.node))
        => /\ ~ ret.ok
           /\ ret.exc = "InvalidTypeDefinition"
           /\ ret.context = args.node.subtypes.v[1].context

\* every name of the type is the name of an object of the schema
RECURSIVE FullyResolvable(_, _)
FullyResolvable(t, schema) ==
    IF t.kind = "ObjectRef"
    THEN \E e \in schema : e[2] = t.classname
    ELSE \A i \in 1..Len(t.element_types) : FullyResolvable(t.element_types[i][2], schema)

\* same kind, same element names in the same order, same element types
RECURSIVE Equivalent(_, _)
Equivalent(t, u) ==
    /\ t.kind = u.kind
    /\ IF t.kind = "ObjectRef" THEN t.classname = u.classname
       ELSE /\ t.named = u.named
            /\ Len(t.element_types) = Len(u.element_types)
            /\ \A i \in 1..Len(t.element_types) :
                  /\ t.element_types[i][1] = u.element_types[i][1]
                  /\ Equivalent(t.element_types[i][2], u.element_types[i][2])

\* C2 as stated: for every type t built from fully-resolvable names,
\* ast_to_typeref(typeref_to_ast(t), schema) is structurally equivalent to t.
C2_RoundTrip ==
    (call = "round_trip" /\ args.schema # None /\ FullyResolvable(args.t, args.schema.v))
        => (ret.ok /\ Equivalent(ret.val, args.t))

\* the round trip of the types without a named tuple at any depth
RECURSIVE NoNamedTuple(_)
NoNamedTuple(t) ==
    t.kind = "ObjectRef"
    \/ (~ t.named /\ \A i \in 1..Len(t.element_types) : NoNamedTuple(t.element_types[i][2]))

RoundTripOfPositionalTypes ==
    (call = "round_trip" /\ args.schema # None /\ FullyResolvable(args.t, args.schema.v)
        /\ NoNamedTuple(args.t))
        => (ret.ok /\ Equivalent(ret.val, args.t))

\* the leaves of a type expression, in the order they are resolved
RECURSIVE LeavesOf(_)
RECURSIVE LeavesOfList(_, _)
LeavesOf(node) ==
    IF node.subtypes = None THEN <<node>> ELSE LeavesOfList(node.subtypes.v, 1)

LeavesOfList(nodes, i) ==
    IF i > Len(nodes) THEN <<>> ELSE LeavesOf(nodes[i]) \o LeavesOfList(nodes, i + 1)

\* the node is found in the schema under its alias-resolved module
FoundInSchema(leaf, modaliases, schema) ==
    LET declared == leaf.maintype.module
        looked == IF \E a \in modaliases : a[1] = declared
                  THEN Some((CHOOSE a \in modaliases : a[1] = declared)[2])
                  ELSE declared
    IN  /\ looked # None
        /\ \E e \in schema : e[1] = Name(looked.v, leaf.maintype.name)

\* the module of the leaf is determined after the resolution
Determined(leaf, modaliases, schema) ==
    IF schema # None
    THEN FoundInSchema(leaf, modaliases, schema.v) \/ leaf.maintype.module # None
    ELSE IF modaliases # {}
         THEN \E a \in modaliases : a[1] = leaf.maintype.module
         ELSE leaf.maintype.module # None

\* no tuple mixes named and positional subtypes and every array has exactly
\* one subtype
RECURSIVE WellFormed(_)
WellFormed(node) ==
    node.subtypes = None
    \/ /\ IF IsTupleNode(node) THEN ~ MixedModes(node) ELSE Len(node.subtypes.v) = 1
       /\ \A i \in 1..Len(node.subtypes.v) : WellFormed(node.subtypes.v[i])

\* every reference of the type carries a module
RECURSIVE Qualified(_)
Qualified(t) ==
    IF t.kind = "ObjectRef"
    THEN t.classname.module \in {"m", "std"}
    ELSE \A i \in 1..Len(t.element_types) : Qualified(t.element_types[i][2])

Undetermined(node, modaliases, schema) ==
    {i \in 1..Len(LeavesOf(node)) : ~ Determined(LeavesOf(node)[i], modaliases, schema)}

\* C15: a successful ast_to_typeref returns a type all of whose references,
\* at every depth, carry a determined module; when the module of a name is
\* undetermined after the resolution the call fails, and in an otherwise
\* well-formed expression it fails with ItemNotFoundError located at the
\* first such name.
C15_NoUndeterminedModuleReturned ==
    call = "ast_to_typeref" =>
        LET undetermined == Undetermined(args.node, args.modaliases, args.schema)
        IN  /\ ret.ok => (undetermined = {} /\ Qualified(ret.val))
            /\ (undetermined # {} /\ WellFormed(args.node)) =>
                  LET first == CHOOSE i \in undetermined : \A j \in undetermined : i <= j
                  IN  ret = Raise("ItemNotFoundError", LeavesOf(args.node)[first].context)

\* tuple<m::T, X> with an unqualified X that nothing resolves fails at X
C15_Witness ==
    /\ call = "ast_to_typeref"
    /\ args.node.subtypes # None
    /\ WellFormed(args.node)
    /\ Len(LeavesOf(args.node)) = 2
    /\ Undetermined(args.node, args.modaliases, args.schema) = {2}
    /\ args.schema # None
    /\ ret = Raise("ItemNotFoundError", Some(<<2>>))

\* C16 as stated: on a node without subtypes, with a schema, the reference
\* returned carries the canonical module of the object found under the
\* alias-resolved module, and the alias-resolved module when no object is
\* found.
C16_NotFoundKeepsAliasResolvedModule ==
    (call = "ast_to_typeref" /\ args.node.subtypes = None /\ args.schema # None) =>
        LET nqname == args.node.maintype.name
            resolved == AliasGet(args.modaliases, args.node.maintype.module,
                                 args.node.maintype.module)
        IN  IF FoundInSchema(args.node, args.modaliases, args.schema.v)
            THEN \E e \in args.schema.v :
                    /\ e[1] = Name(resolved.v, nqname)
                    /\ ret = Return(ObjectRef(Name(e[2].module, nqname)))
            ELSE resolved # None => ret = Return(ObjectRef(Name(resolved.v, nqname)))

\* with a schema, a name that is found carries the canonical module of the
\* object, and a name that is not found carries the module it declares
LeafWithSchemaKeepsDeclaredModule ==
    (call = "ast_to_typeref" /\ args.node.subtypes = None /\ args.schema # None) =>
        LET nqname == args.node.maintype.name
            declared == args.node.maintype.module
        IN  IF FoundInSchema(args.node, args.modaliases, args.schema.v)
            THEN \E e \in args.schema.v :
                    /\ e[1] = Name(AliasGet(args.modaliases, declared, declared).v, nqname)
                    /\ ret = Return(ObjectRef(Name(e[2].module, nqname)))
            ELSE IF declared # None
                 THEN ret = Return(ObjectRef(Name(declared.v, nqname)))
                 ELSE ret = Raise("ItemNotFoundError", args.node.context)

\* the subtypes of the node that fail when resolved
FailingSubtypes(node, modaliases, schema) ==
    {i \in 1..Len(node.subtypes.v) : ~ ast_to_typeref(node.subtypes.v[i], modaliases, schema).ok}

\* the tuple loop raises its own error on reaching subtype i: the subtypes
\* up to i mix named and positional modes
MixedUpTo(node, i) ==
    /\ \E j \in 1..i : node.subtypes.v[j].name # None
    /\ \E j \in 1..i : node.subtypes.v[j].name = None

QualifiedName(st) == IF st.kind = "ObjectRef" THEN st.classname ELSE st.name

HasUnresolved(ref) ==
    \E i \in 1..Len(ref.element_types) : ref.element_types[i][2].kind = "ObjectRef"

InSchema(name) == \E e \in TypeSchema : e[1] = name

\* the tuple has the keys and the named-mode of ref and its elements are
\* the objects of the schema for the qualified names of the elements of ref
ResolvedLike(t, ref) ==
    /\ t.kind = "Tuple"
    /\ t.named = ref.named
    /\ Len(t.element_types) = Len(ref.element_types)
    /\ \A i \in 1..Len(ref.element_types) :
          /\ t.element_types[i][1] = ref.element_types[i][1]
          /\ \E e \in TypeSchema :
                /\ e[1] = QualifiedName(ref.element_types[i][2])
                /\ t.element_types[i][2] = ResolvedObject(e[2])

ResolveOfUniformTuples ==
    (call = "resolve_typeref" /\ args.ref.kind = "Tuple"
        /\ (\A i \in 1..Len(args.ref.element_types) :
               args.ref.element_types[i][2].kind = "ObjectRef"
            \/ ~ HasUnresolved(args.ref))) =>
        IF HasUnresolved(args.ref)
        THEN IF \A i \in 1..Len(args.ref.element_types) :
                    InSchema(QualifiedName(args.ref.element_types[i][2]))
             THEN ret.ok /\ ResolvedLike(ret.val, args.ref)
             ELSE ~ ret.ok /\ ret.exc = "ItemNotFoundError"
        ELSE ret = Return(args.ref)

====
